---- MODULE Spec2Model ----
(***************************************************************************)
(* Model of the fund allocator of FirstApp (src/utils/ProjectDataParser.tsx)*)
(* processProjectsWithProgress = sortProjectsByPriority, then               *)
(* getTotalEarnedSince, then distributeFundsAndCalculateProgress.           *)
(*                                                                         *)
(* Numbers.  Amounts and the pool are integers (the pool is the result of   *)
(* Math.floor in calculateTotalEarnings).  A progress value is an exact     *)
(* rational <<n, d>> with d > 0.  For integer amounts below 32 the double   *)
(* (allocated / amount) * 100 never sits on a toFixed(2) rounding boundary  *)
(* and its distance to the nearest boundary is far above the floating-point *)
(* error, so rounding the exact rational gives what toFixed(2) gives.       *)
(*                                                                         *)
(* A project is [name, amount, priority]; details and start_date are        *)
(* carried along untouched by the code and are left out.  name is the       *)
(* position of the project in the catalog.                                  *)
(*                                                                         *)
(* The module also holds calculateTotalEarnings and                         *)
(* getDailyReportsForCurrentWeek (src/utils/ClockifyReport.tsx), the        *)
(* DailyReport component (src/components/Project.tsx) and the Projects      *)
(* component (src/components/Projects.tsx), each with its own variable and  *)
(* its own specification; a unit that a specification does not run stays    *)
(* at NoCall.                                                               *)
(***************************************************************************)
EXTENDS Integers, Sequences, FiniteSets, Bags

VARIABLES
  rawProjects,                     \* the catalog (projects.json)
  sortedProjects,                  \* result of sortProjectsByPriority
  earningsOutcome,                 \* how getTotalEarnedSince settled
  totalEarned,                     \* value getTotalEarnedSince resolved to
  remainingEarnedMoney,            \* the running remainder of the loop
  projectsWithCalculatedProgress,  \* the result list being built
  allocated,                       \* moneyAllocatedToProject of each pass so far
  pc,                              \* position in processProjectsWithProgress
  runs,                            \* locals of two separate invocations of
                                   \* distributeFundsAndCalculateProgress
  earningsCall,                    \* an invocation of calculateTotalEarnings
  weekCall,                        \* an invocation of getDailyReportsForCurrentWeek
  dailyReport,                     \* the DailyReport component
  projectsView                     \* the Projects component

vars == <<rawProjects, sortedProjects, earningsOutcome, totalEarned,
          remainingEarnedMoney, projectsWithCalculatedProgress, allocated, pc,
          runs, earningsCall, weekCall, dailyReport, projectsView>>

\* the state of the report functions and of the components
components == <<earningsCall, weekCall, dailyReport, projectsView>>

\* the state outside processProjectsWithProgress
others == <<runs, components>>

----------------------------------------------------------------------------
(* Bounds of the explored inputs *)
MaxLen == 2
MaxAmount == 3
NegAmount == 1
MaxPool == 7
NegPool == 1

\* The two pools of the documented scenarios
ScenarioPools == {1200, 3500}

Tiers == {"critical", "high", "medium", "low"}
Priorities == Tiers \cup {"urgent"}
Amounts == (0 - NegAmount)..MaxAmount
Pools == ((0 - NegPool)..MaxPool) \cup ScenarioPools

----------------------------------------------------------------------------
(* Rational arithmetic for progress values *)
RatLeq(a, b) == a[1] * b[2] <= b[1] * a[2]
RatLt(a, b) == a[1] * b[2] < b[1] * a[2]
RatEq(a, b) == a[1] * b[2] = b[1] * a[2]
MathMin(a, b) == IF RatLeq(a, b) THEN a ELSE b
MathMax(a, b) == IF RatLeq(a, b) THEN b ELSE a
IntMin(a, b) == IF a <= b THEN a ELSE b

\* toFixed(1) in place of toFixed(2): rounding to tenths
toFixed1(x) ==
  IF x[1] >= 0 THEN 10 * ((2 * 10 * x[1] + x[2]) \div (2 * x[2]))
  ELSE 0 - 10 * ((2 * 10 * (0 - x[1]) + x[2]) \div (2 * x[2]))

\* toFixed(2) cutting the digits after the second one instead of rounding
toFixedFloor(x) ==
  IF x[1] >= 0 THEN (100 * x[1]) \div x[2]
  ELSE 0 - ((100 * (0 - x[1])) \div x[2])

\* Number.prototype.toFixed(2): the decimal string with two fraction digits,
\* nearest to x, the larger one on a tie; modelled by its count of hundredths.
toFixed2(x) ==
  IF x[1] >= 0 THEN (2 * 100 * x[1] + x[2]) \div (2 * x[2])
  ELSE 0 - ((2 * 100 * (0 - x[1]) + x[2]) \div (2 * x[2]))

\* parseFloat of a string with two fraction digits
parseFloat(hundredths) == <<hundredths, 100>>

----------------------------------------------------------------------------
(* sortProjectsByPriority *)
\* priorityOrder with the ranks of medium and low exchanged
priorityOrderSwapped == [critical |-> 1, high |-> 2, medium |-> 4, low |-> 3]

priorityOrder == [critical |-> 1, high |-> 2, medium |-> 3, low |-> 4]

\* A number is <<v>>; NaN is <<>>.
NaN == <<>>

\* comparefn with the operands of the subtraction exchanged
comparefnReversed(a, b) ==
  IF a.priority \in DOMAIN priorityOrder /\ b.priority \in DOMAIN priorityOrder
  THEN <<priorityOrder[b.priority] - priorityOrder[a.priority]>>
  ELSE NaN

\* comparefn breaking a tie of priorities by amount
comparefnByAmount(a, b) ==
  IF a.priority \in DOMAIN priorityOrder /\ b.priority \in DOMAIN priorityOrder
  THEN IF priorityOrder[a.priority] # priorityOrder[b.priority]
       THEN <<priorityOrder[a.priority] - priorityOrder[b.priority]>>
       ELSE <<a.amount - b.amount>>
  ELSE NaN

\* (a, b) => priorityOrder[a.priority] - priorityOrder[b.priority]
\* A priority that is no key of priorityOrder reads undefined, and a
\* subtraction with undefined is NaN.
comparefn(a, b) ==
  IF a.priority \in DOMAIN priorityOrder /\ b.priority \in DOMAIN priorityOrder
  THEN <<priorityOrder[a.priority] - priorityOrder[b.priority]>>
  ELSE NaN

\* SortCompare of Array.prototype.sort: a NaN from comparefn counts as +0
SortCompare(a, b) == IF comparefn(a, b) = NaN THEN 0 ELSE comparefn(a, b)[1]

\* comparefn is a consistent comparator for the elements of s
ConsistentComparator(s) ==
  \A i, j, k \in 1..Len(s) :
    /\ (SortCompare(s[i], s[j]) = 0 /\ SortCompare(s[j], s[k]) = 0)
          => SortCompare(s[i], s[k]) = 0
    /\ (SortCompare(s[i], s[j]) < 0 /\ SortCompare(s[j], s[k]) <= 0)
          => SortCompare(s[i], s[k]) < 0
    /\ (SortCompare(s[i], s[j]) <= 0 /\ SortCompare(s[j], s[k]) < 0)
          => SortCompare(s[i], s[k]) < 0

Front(s) == SubSeq(s, 1, Len(s) - 1)

RECURSIVE InsertSorted(_, _)
InsertSorted(s, x) ==
  IF s = <<>> THEN <<x>>
  ELSE IF SortCompare(s[Len(s)], x) > 0
       THEN Append(InsertSorted(Front(s), x), s[Len(s)])
       ELSE Append(s, x)

\* the stable sort Array.prototype.sort performs with a consistent comparator
RECURSIVE ArraySort(_)
ArraySort(s) ==
  IF s = <<>> THEN <<>> ELSE InsertSorted(ArraySort(Front(s)), s[Len(s)])

Reorderings(s) ==
  { [i \in 1..Len(s) |-> s[p[i]]] :
      p \in { q \in [1..Len(s) -> 1..Len(s)] :
                \A i, j \in 1..Len(s) : q[i] = q[j] => i = j } }

\* sortProjectsByPriority on an engine whose sort is not stable: any order
\* of the elements that the comparator accepts as sorted
sortProjectsByPriorityUnstable(projects) ==
  { s \in Reorderings(projects) :
      \A i, j \in 1..Len(s) : i < j => SortCompare(s[i], s[j]) <= 0 }

\* The set of arrays [...projects].sort(comparefn) can return: the stable
\* sort when comparefn is consistent, an implementation-defined order of the
\* same elements when it is not.
sortProjectsByPriority(projects) ==
  IF ConsistentComparator(projects) THEN {ArraySort(projects)}
  ELSE Reorderings(projects)

----------------------------------------------------------------------------
(* distributeFundsAndCalculateProgress *)

\* LoopBody without "remainingEarnedMoney -= moneyAllocatedToProject"
LoopBodyNoDecrement(project, remaining) ==
  LET moneyAllocatedToProject ==
        IF project.amount > 0 /\ remaining > 0
        THEN IntMin(remaining, project.amount) ELSE 0
      progress ==
        IF project.amount <= 0 THEN <<100, 1>>
        ELSE IF remaining > 0
             THEN <<moneyAllocatedToProject * 100, project.amount>>
             ELSE <<0, 1>>
  IN [progress |-> MathMin(<<100, 1>>, MathMax(<<0, 1>>, parseFloat(toFixed2(progress)))),
      moneyAllocatedToProject |-> moneyAllocatedToProject,
      remaining |-> remaining]

\* LoopBody allocating project.amount instead of Math.min(remaining, amount)
LoopBodyNoMin(project, remaining) ==
  LET moneyAllocatedToProject ==
        IF project.amount > 0 /\ remaining > 0
        THEN project.amount ELSE 0
      progress ==
        IF project.amount <= 0 THEN <<100, 1>>
        ELSE IF remaining > 0
             THEN <<moneyAllocatedToProject * 100, project.amount>>
             ELSE <<0, 1>>
  IN [progress |-> MathMin(<<100, 1>>, MathMax(<<0, 1>>, parseFloat(toFixed2(progress)))),
      moneyAllocatedToProject |-> moneyAllocatedToProject,
      remaining |-> remaining - moneyAllocatedToProject]

\* LoopBody leaving a target with amount <= 0 at its initial progress 0
LoopBodyZeroCostZero(project, remaining) ==
  LET moneyAllocatedToProject ==
        IF project.amount > 0 /\ remaining > 0
        THEN IntMin(remaining, project.amount) ELSE 0
      progress ==
        IF project.amount <= 0 THEN <<0, 1>>
        ELSE IF remaining > 0
             THEN <<moneyAllocatedToProject * 100, project.amount>>
             ELSE <<0, 1>>
  IN [progress |-> MathMin(<<100, 1>>, MathMax(<<0, 1>>, parseFloat(toFixed2(progress)))),
      moneyAllocatedToProject |-> moneyAllocatedToProject,
      remaining |-> remaining - moneyAllocatedToProject]

\* LoopBody without parseFloat(progress.toFixed(2))
LoopBodyNoRounding(project, remaining) ==
  LET moneyAllocatedToProject ==
        IF project.amount > 0 /\ remaining > 0
        THEN IntMin(remaining, project.amount) ELSE 0
      progress ==
        IF project.amount <= 0 THEN <<100, 1>>
        ELSE IF remaining > 0
             THEN <<moneyAllocatedToProject * 100, project.amount>>
             ELSE <<0, 1>>
  IN [progress |-> MathMin(<<100, 1>>, MathMax(<<0, 1>>, progress)),
      moneyAllocatedToProject |-> moneyAllocatedToProject,
      remaining |-> remaining - moneyAllocatedToProject]

\* LoopBody testing project.amount < 0 instead of <= 0: a target of amount 0
\* stays at 0 without money, and gets 0 / 0 * 100 = NaN (here <<0, 0>>, which
\* toFixed, parseFloat, Math.max and Math.min all hand on) with money
LoopBodyAmountBelowZero(project, remaining) ==
  LET moneyAllocatedToProject ==
        IF project.amount >= 0 /\ remaining > 0
        THEN IntMin(remaining, project.amount) ELSE 0
      progress ==
        IF project.amount < 0 THEN <<100, 1>>
        ELSE IF remaining > 0
             THEN <<moneyAllocatedToProject * 100, project.amount>>
             ELSE <<0, 1>>
  IN [progress |-> IF progress[2] = 0 THEN <<0, 0>>
                   ELSE MathMin(<<100, 1>>, MathMax(<<0, 1>>, parseFloat(toFixed2(progress)))),
      moneyAllocatedToProject |-> moneyAllocatedToProject,
      remaining |-> remaining - moneyAllocatedToProject]

\* One pass of the for loop: the progress pushed for project, the money
\* allocated to it and the remainder after it.
LoopBody(project, remaining) ==
  LET moneyAllocatedToProject ==
        IF project.amount > 0 /\ remaining > 0
        THEN IntMin(remaining, project.amount) ELSE 0
      progress ==
        IF project.amount <= 0 THEN <<100, 1>>
        ELSE IF remaining > 0
             THEN <<moneyAllocatedToProject * 100, project.amount>>
             ELSE <<0, 1>>
  IN [progress |-> MathMin(<<100, 1>>, MathMax(<<0, 1>>, parseFloat(toFixed2(progress)))),
      moneyAllocatedToProject |-> moneyAllocatedToProject,
      remaining |-> remaining - moneyAllocatedToProject]

WithProgress(project, progress) ==
  [name |-> project.name, amount |-> project.amount,
   priority |-> project.priority, progress |-> progress]

RECURSIVE Distribute(_, _, _)
Distribute(projects, remaining, acc) ==
  IF projects = <<>> THEN acc
  ELSE LET r == LoopBody(Head(projects), remaining)
       IN Distribute(Tail(projects), r.remaining,
                     Append(acc, WithProgress(Head(projects), r.progress)))

\* the remainder initialised with the pool's sign inverted
InitialRemainingNegated(totalEarnedMoney) == 0 - totalEarnedMoney

\* the remainder initialised with Math.abs(totalEarnedMoney)
InitialRemainingAbs(totalEarnedMoney) ==
  IF totalEarnedMoney < 0 THEN 0 - totalEarnedMoney ELSE totalEarnedMoney

\* let remainingEarnedMoney = totalEarnedMoney
InitialRemaining(totalEarnedMoney) == totalEarnedMoney

distributeFundsAndCalculateProgress(projects, totalEarnedMoney) ==
  Distribute(projects, InitialRemaining(totalEarnedMoney), <<>>)

----------------------------------------------------------------------------
(* processProjectsWithProgress as a state machine *)

Project(i, a, p) == [name |-> i, amount |-> a, priority |-> p]

\* the catalogs of at most MaxLen projects with priorities in P
Catalogs(P) ==
  UNION { { [i \in 1..n |-> Project(i, am[i], pr[i])] :
              am \in [1..n -> Amounts], pr \in [1..n -> P] } :
          n \in 0..MaxLen }

\* The catalog of the documented scenarios, critical 1000, high 500 and
\* low 2000, listed in any order
ScenarioTargets ==
  { [amount |-> 1000, priority |-> "critical"],
    [amount |-> 500, priority |-> "high"],
    [amount |-> 2000, priority |-> "low"] }

ScenarioCatalogs ==
  { [i \in 1..3 |-> Project(i, t[i].amount, t[i].priority)] :
      t \in { u \in [1..3 -> ScenarioTargets] :
                \A i, j \in 1..3 : u[i] = u[j] => i = j } }

NoRuns == <<>>

\* a function that is not invoked, a component that is not mounted
NoCall == <<>>

ComponentsIdle ==
  /\ earningsCall = NoCall
  /\ weekCall = NoCall
  /\ dailyReport = NoCall
  /\ projectsView = NoCall

InitWith(catalogs) ==
  /\ runs = NoRuns
  /\ ComponentsIdle
  /\ rawProjects \in catalogs
  /\ sortedProjects = <<>>
  /\ earningsOutcome = "pending"
  /\ totalEarned = 0
  /\ remainingEarnedMoney = 0
  /\ projectsWithCalculatedProgress = <<>>
  /\ allocated = <<>>
  /\ pc = "sort"

\* projects.json holds what its declared type ProjectFromJson[] says
Init == InitWith(Catalogs(Tiers) \cup ScenarioCatalogs)

\* projects.json is cast to ProjectFromJson[] unchecked: a priority may be
\* any string
InitUnchecked == InitWith(Catalogs(Priorities))

\* SortStep with projects.sort(...) in place of [...projects].sort(...)
SortStepInPlace ==
  /\ pc = "sort"
  /\ sortedProjects' \in sortProjectsByPriority(rawProjects)
  /\ rawProjects' = sortedProjects'
  /\ pc' = "fetch"
  /\ UNCHANGED <<earningsOutcome, totalEarned, remainingEarnedMoney,
                 projectsWithCalculatedProgress, allocated, others>>

\* SortStep handing the catalog on unsorted
SortStepNoSort ==
  /\ pc = "sort"
  /\ sortedProjects' = rawProjects
  /\ pc' = "fetch"
  /\ UNCHANGED <<rawProjects, earningsOutcome, totalEarned, remainingEarnedMoney,
                 projectsWithCalculatedProgress, allocated, others>>

\* Step 1 of processProjectsWithProgress
SortStep ==
  /\ pc = "sort"
  /\ sortedProjects' \in sortProjectsByPriority(rawProjects)
  /\ pc' = "fetch"
  /\ UNCHANGED <<rawProjects, earningsOutcome, totalEarned, remainingEarnedMoney,
                 projectsWithCalculatedProgress, allocated, others>>

\* getTotalEarnedSince settles with total; distributeFundsAndCalculateProgress
\* is entered and initialises its locals
Settle(outcome, total) ==
  /\ pc = "fetch"
  /\ earningsOutcome' = outcome
  /\ totalEarned' = total
  /\ remainingEarnedMoney' = InitialRemaining(total)
  /\ projectsWithCalculatedProgress' = <<>>
  /\ allocated' = <<>>
  /\ pc' = "loop"
  /\ UNCHANGED <<rawProjects, sortedProjects, others>>

\* the start date is after the current date
StartDateInFuture == Settle("future", 0)

\* fetchClockifyTimeEntries resolved; calculateTotalEarnings returned total
EarningsResolved == \E total \in Pools : Settle("resolved", total)

\* EarningsFailed with the catch block re-throwing: the run rejects
EarningsFailedRethrow ==
  /\ pc = "fetch"
  /\ earningsOutcome' = "failed"
  /\ pc' = "rejected"
  /\ UNCHANGED <<rawProjects, sortedProjects, totalEarned, remainingEarnedMoney,
                 projectsWithCalculatedProgress, allocated, others>>

\* fetchClockifyTimeEntries rejected or calculateTotalEarnings threw
EarningsFailed == Settle("failed", 0)

\* LoopIteration with unshift in place of push
LoopIterationUnshift ==
  /\ pc = "loop"
  /\ Len(projectsWithCalculatedProgress) < Len(sortedProjects)
  /\ LET project == sortedProjects[Len(projectsWithCalculatedProgress) + 1]
         r == LoopBody(project, remainingEarnedMoney)
     IN /\ projectsWithCalculatedProgress' =
             <<WithProgress(project, r.progress)>> \o projectsWithCalculatedProgress
        /\ allocated' = Append(allocated, r.moneyAllocatedToProject)
        /\ remainingEarnedMoney' = r.remaining
  /\ UNCHANGED <<rawProjects, sortedProjects, earningsOutcome, totalEarned, pc,
                 others>>

LoopIteration ==
  /\ pc = "loop"
  /\ Len(projectsWithCalculatedProgress) < Len(sortedProjects)
  /\ LET project == sortedProjects[Len(projectsWithCalculatedProgress) + 1]
         r == LoopBody(project, remainingEarnedMoney)
     IN /\ projectsWithCalculatedProgress' =
             Append(projectsWithCalculatedProgress, WithProgress(project, r.progress))
        /\ allocated' = Append(allocated, r.moneyAllocatedToProject)
        /\ remainingEarnedMoney' = r.remaining
  /\ UNCHANGED <<rawProjects, sortedProjects, earningsOutcome, totalEarned, pc,
                 others>>

Return ==
  /\ pc = "loop"
  /\ Len(projectsWithCalculatedProgress) = Len(sortedProjects)
  /\ pc' = "done"
  /\ UNCHANGED <<rawProjects, sortedProjects, earningsOutcome, totalEarned,
                 remainingEarnedMoney, projectsWithCalculatedProgress, allocated,
                 others>>

Next ==
  \/ SortStep
  \/ StartDateInFuture
  \/ EarningsResolved
  \/ EarningsFailed
  \/ LoopIteration
  \/ Return

Spec == Init /\ [][Next]_vars

----------------------------------------------------------------------------
(* Two invocations of distributeFundsAndCalculateProgress, each with its own
   locals, their passes interleaved in any order *)

ConcMaxLen == 2
ConcMaxAmount == 2
ConcMaxPool == 2

RunIds == {1, 2}

ConcInputs ==
  UNION { { [i \in 1..n |-> Project(i, am[i], "medium")] :
              am \in [1..n -> 1..ConcMaxAmount] } : n \in 0..ConcMaxLen }

allocatorVars == <<rawProjects, sortedProjects, earningsOutcome, totalEarned,
                   remainingEarnedMoney, projectsWithCalculatedProgress,
                   allocated, pc>>

InitConcurrent ==
  /\ rawProjects = <<>>
  /\ sortedProjects = <<>>
  /\ earningsOutcome = "pending"
  /\ totalEarned = 0
  /\ remainingEarnedMoney = 0
  /\ projectsWithCalculatedProgress = <<>>
  /\ allocated = <<>>
  /\ pc = "idle"
  /\ ComponentsIdle
  /\ runs \in [RunIds ->
               { [sortedProjects |-> ps, totalEarnedMoney |-> t,
                  remainingEarnedMoney |-> 0,
                  projectsWithCalculatedProgress |-> <<>>, pc |-> "call"] :
                 ps \in ConcInputs, t \in 0..ConcMaxPool }]

\* invocation r is entered and initialises its locals
Call(r) ==
  /\ runs[r].pc = "call"
  /\ runs' = [runs EXCEPT
                ![r].remainingEarnedMoney = InitialRemaining(runs[r].totalEarnedMoney),
                ![r].projectsWithCalculatedProgress = <<>>,
                ![r].pc = "loop"]
  /\ UNCHANGED <<allocatorVars, components>>

\* Pass with the remainder kept in one variable shared by the invocations
\* (the one of invocation 1) instead of a local
PassShared(r) ==
  /\ runs[r].pc = "loop"
  /\ Len(runs[r].projectsWithCalculatedProgress) < Len(runs[r].sortedProjects)
  /\ LET project ==
           runs[r].sortedProjects[Len(runs[r].projectsWithCalculatedProgress) + 1]
         b == LoopBody(project, runs[1].remainingEarnedMoney)
         pushed == [runs EXCEPT
                      ![r].projectsWithCalculatedProgress =
                         Append(@, WithProgress(project, b.progress))]
     IN runs' = [pushed EXCEPT ![1].remainingEarnedMoney = b.remaining]
  /\ UNCHANGED <<allocatorVars, components>>

\* one pass of the loop of invocation r
Pass(r) ==
  /\ runs[r].pc = "loop"
  /\ Len(runs[r].projectsWithCalculatedProgress) < Len(runs[r].sortedProjects)
  /\ LET project ==
           runs[r].sortedProjects[Len(runs[r].projectsWithCalculatedProgress) + 1]
         b == LoopBody(project, runs[r].remainingEarnedMoney)
     IN runs' = [runs EXCEPT
                   ![r].projectsWithCalculatedProgress =
                      Append(@, WithProgress(project, b.progress)),
                   ![r].remainingEarnedMoney = b.remaining]
  /\ UNCHANGED <<allocatorVars, components>>

\* invocation r returns its list
Exit(r) ==
  /\ runs[r].pc = "loop"
  /\ Len(runs[r].projectsWithCalculatedProgress) = Len(runs[r].sortedProjects)
  /\ runs' = [runs EXCEPT ![r].pc = "returned"]
  /\ UNCHANGED <<allocatorVars, components>>

NextConcurrent ==
  \E r \in RunIds :
    \/ Call(r)
    \/ Pass(r)
    \/ Exit(r)

SpecConcurrent == InitConcurrent /\ [][NextConcurrent]_vars

SpecUnchecked == InitUnchecked /\ [][Next]_vars

----------------------------------------------------------------------------
(* calculateTotalEarnings (src/utils/ClockifyReport.tsx) *)

MaxEntries == 2
MaxEarned == 2
NegEarned == 1

\* earnedAmount values, in cents, around the points where the quotient by
\* 100 changes
EarnedSamples == {99, 100, 250}
EarnedAmounts == ((0 - NegEarned)..MaxEarned) \cup EarnedSamples

\* An earnedAmount is <<"number", n>>, <<"null">> or <<"undefined">>
TimeEntries ==
  [billable : BOOLEAN,
   earnedAmount : {<<"null">>, <<"undefined">>}
                    \cup {<<"number", n>> : n \in EarnedAmounts}]

\* The values passed as data: a value that is not an object, null, an
\* object without the field timeentries, an object whose timeentries is an
\* array of time entries
DataInputs ==
  { [typeof |-> t, isNull |-> FALSE, hasTimeentries |-> FALSE,
     timeentries |-> <<>>] : t \in {"undefined", "string", "object"} }
  \cup { [typeof |-> "object", isNull |-> TRUE, hasTimeentries |-> FALSE,
          timeentries |-> <<>>] }
  \cup UNION { { [typeof |-> "object", isNull |-> FALSE,
                  hasTimeentries |-> TRUE, timeentries |-> es] :
                 es \in [1..n -> TimeEntries] } : n \in 0..MaxEntries }

\* typeof data === 'object' && data !== null && "timeentries" in data
HasTimeEntries(data) ==
  data.typeof = "object" /\ ~data.isNull /\ data.hasTimeentries

\* the body of the for...of loop counting every entry, billable or not
AddEntryAnyBillable(entry, currentTotalEarnings) ==
  IF entry.earnedAmount[1] = "number"
  THEN currentTotalEarnings + entry.earnedAmount[2]
  ELSE currentTotalEarnings

\* the body of the for...of loop
AddEntry(entry, currentTotalEarnings) ==
  IF entry.billable /\ entry.earnedAmount[1] = "number"
  THEN currentTotalEarnings + entry.earnedAmount[2]
  ELSE currentTotalEarnings

\* the returned value with the quotient cut towards zero (Math.trunc)
CentsToUnitsTruncated(currentTotalEarnings) ==
  IF currentTotalEarnings >= 0 THEN currentTotalEarnings \div 100
  ELSE 0 - ((0 - currentTotalEarnings) \div 100)

\* Math.floor(currentTotalEarnings / 100)
CentsToUnits(currentTotalEarnings) == currentTotalEarnings \div 100

exceptEarnings == <<allocatorVars, runs, weekCall, dailyReport, projectsView>>

AllocatorIdle ==
  /\ rawProjects = <<>>
  /\ sortedProjects = <<>>
  /\ earningsOutcome = "pending"
  /\ totalEarned = 0
  /\ remainingEarnedMoney = 0
  /\ projectsWithCalculatedProgress = <<>>
  /\ allocated = <<>>
  /\ pc = "idle"

InitEarnings ==
  /\ AllocatorIdle
  /\ runs = NoRuns
  /\ weekCall = NoCall
  /\ dailyReport = NoCall
  /\ projectsView = NoCall
  /\ earningsCall \in
       { [data |-> d, currentTotalEarnings |-> 0, next |-> 1, result |-> 0,
          pc |-> "call"] : d \in DataInputs }

\* let currentTotalEarnings = 0 and the test of the if statement
CalcEnter ==
  /\ earningsCall.pc = "call"
  /\ earningsCall' =
       [earningsCall EXCEPT
          !.currentTotalEarnings = 0,
          !.next = 1,
          !.pc = IF HasTimeEntries(earningsCall.data) THEN "loop" ELSE "return"]
  /\ UNCHANGED exceptEarnings

\* one iteration of for (const entry of timeEntries)
CalcEntry ==
  /\ earningsCall.pc = "loop"
  /\ earningsCall.next <= Len(earningsCall.data.timeentries)
  /\ earningsCall' =
       [earningsCall EXCEPT
          !.currentTotalEarnings =
             AddEntry(earningsCall.data.timeentries[earningsCall.next], @),
          !.next = @ + 1]
  /\ UNCHANGED exceptEarnings

\* the loop is exhausted
CalcLoopEnd ==
  /\ earningsCall.pc = "loop"
  /\ earningsCall.next > Len(earningsCall.data.timeentries)
  /\ earningsCall' = [earningsCall EXCEPT !.pc = "return"]
  /\ UNCHANGED exceptEarnings

\* return Math.floor(currentTotalEarnings / 100)
CalcReturn ==
  /\ earningsCall.pc = "return"
  /\ earningsCall' =
       [earningsCall EXCEPT
          !.result = CentsToUnits(earningsCall.currentTotalEarnings),
          !.pc = "returned"]
  /\ UNCHANGED exceptEarnings

NextEarnings ==
  \/ CalcEnter
  \/ CalcEntry
  \/ CalcLoopEnd
  \/ CalcReturn

SpecEarnings == InitEarnings /\ [][NextEarnings]_vars

----------------------------------------------------------------------------
(* getDailyReportsForCurrentWeek (src/utils/ClockifyReport.tsx)

   A date is the number of its day, day 0 being a Sunday; setDate carries
   over the ends of months, so it is arithmetic on day numbers.  A report is
   [totalEarnings].  requested, served and failed record the calls of getDay:
   the days asked for, the days answered with their earnings, the day whose
   fetch failed. *)

MaxToday == 13
MaxWeekEarnings == 1

DaysInWeek == 7

Todays == 0..MaxToday
WeekEarnings == 0..MaxWeekEarnings

\* Date.prototype.getDay: 0 for Sunday, 1 for Monday, ...
DateGetDay(date) == date % 7

\* diffToMonday without the case of Sunday
BeginningOfWeekFromSunday(today) == today - DateGetDay(today) + 1

\* today.setDate(today.getDate() - dayOfWeek + (dayOfWeek === 0 ? -6 : 1))
BeginningOfWeek(today) ==
  LET dayOfWeek == DateGetDay(today)
  IN today - dayOfWeek + (IF dayOfWeek = 0 THEN 0 - 6 ELSE 1)

exceptWeek == <<allocatorVars, runs, earningsCall, dailyReport, projectsView>>

InitWeek ==
  /\ AllocatorIdle
  /\ runs = NoRuns
  /\ earningsCall = NoCall
  /\ dailyReport = NoCall
  /\ projectsView = NoCall
  /\ weekCall \in
       { [today |-> t, beginningOfWeek |-> 0, i |-> 0, dailyReports |-> <<>>,
          requested |-> <<>>, served |-> <<>>, failed |-> <<>>,
          returned |-> <<>>, pc |-> "call"] : t \in Todays }

\* the call up to its first await: the first pass of the loop calls getDay
WeekEnter ==
  /\ weekCall.pc = "call"
  /\ LET beginningOfWeek == BeginningOfWeek(weekCall.today)
     IN weekCall' =
          [weekCall EXCEPT
             !.beginningOfWeek = beginningOfWeek,
             !.i = 0,
             !.dailyReports = <<>>,
             !.requested = <<beginningOfWeek + 0>>,
             !.pc = "await"]
  /\ UNCHANGED exceptWeek

\* The awaited getDay rejects and the loop goes on with the next day
WeekDayRejectedSkipped ==
  /\ weekCall.pc = "await"
  /\ LET currentDay == weekCall.beginningOfWeek + weekCall.i
         i == weekCall.i + 1
     IN weekCall' =
          IF i < DaysInWeek
          THEN [weekCall EXCEPT
                  !.failed = Append(@, currentDay),
                  !.i = i,
                  !.requested = Append(@, weekCall.beginningOfWeek + i)]
          ELSE [weekCall EXCEPT
                  !.failed = Append(@, currentDay),
                  !.i = i,
                  !.returned = <<weekCall.dailyReports>>,
                  !.pc = "resolved"]
  /\ UNCHANGED exceptWeek

\* The awaited getDay rejects: nothing catches it, the call rejects
WeekDayRejected ==
  /\ weekCall.pc = "await"
  /\ LET currentDay == weekCall.beginningOfWeek + weekCall.i
     IN weekCall' = [weekCall EXCEPT
                       !.failed = Append(@, currentDay),
                       !.pc = "rejected"]
  /\ UNCHANGED exceptWeek

\* The awaited getDay resolves: push, i++, then the next pass up to its
\* await, or the return after the seventh pass
WeekDayResolved ==
  /\ weekCall.pc = "await"
  /\ \E totalEarnings \in WeekEarnings :
       LET currentDay == weekCall.beginningOfWeek + weekCall.i
           dailyReports == Append(weekCall.dailyReports,
                                  [totalEarnings |-> totalEarnings])
           i == weekCall.i + 1
       IN weekCall' =
            IF i < DaysInWeek
            THEN [weekCall EXCEPT
                    !.served = Append(@, <<currentDay, totalEarnings>>),
                    !.dailyReports = dailyReports,
                    !.i = i,
                    !.requested = Append(@, weekCall.beginningOfWeek + i)]
            ELSE [weekCall EXCEPT
                    !.served = Append(@, <<currentDay, totalEarnings>>),
                    !.dailyReports = dailyReports,
                    !.i = i,
                    !.returned = <<dailyReports>>,
                    !.pc = "resolved"]
  /\ UNCHANGED exceptWeek

NextWeek ==
  \/ WeekEnter
  \/ WeekDayResolved
  \/ WeekDayRejected

SpecWeek == InitWeek /\ [][NextWeek]_vars

----------------------------------------------------------------------------
(* The DailyReport component (src/components/Project.tsx)

   A value that can be null is Null or <<n>>.  The outcome of a fetch is
   <<"rejected">> or <<"resolved", totalEarnings>>.  A day is named by its
   distance from today in days.  issued, todayOutcome, lastSettled, earning,
   barren and allRejected record the fetches: the past days asked for, in
   order; the outcome of the fetch for today; the day and the outcome of the
   fetch that settled last; the days whose fetch resolved with earnings above
   0; the days whose fetch settled in any other way; whether every fetch so
   far was rejected. *)

MaxDayEarnings == 1
NegDayEarnings == 1

ScanLimit == 365

Null == <<>>
Rejected == <<"rejected">>
DayEarnings == (0 - NegDayEarnings)..MaxDayEarnings
FetchOutcomes == {Rejected} \cup {<<"resolved", e>> : e \in DayEarnings}

\* getCurrentDay without its try/catch
getCurrentDayRethrow(outcome) ==
  IF outcome[1] = "resolved"
  THEN [settled |-> "resolved", totalEarnings |-> <<outcome[2]>>]
  ELSE [settled |-> "rejected", totalEarnings |-> Null]

\* getCurrentDay: the report of getDay, and { error, totalEarnings: null }
\* when getDay rejects
getCurrentDay(outcome) ==
  IF outcome[1] = "resolved"
  THEN [settled |-> "resolved", totalEarnings |-> <<outcome[2]>>]
  ELSE [settled |-> "resolved", totalEarnings |-> Null]

\* the test with >= in place of >
FoundEarningsNonNegative(totalEarnings) ==
  totalEarnings /= Null /\ totalEarnings[1] >= 0

\* totalEarnings !== null && totalEarnings > 0
FoundEarnings(totalEarnings) ==
  totalEarnings /= Null /\ totalEarnings[1] > 0

\* the loop test with <= in place of <
LoopContinuesInclusive(i) == i <= ScanLimit

\* i < 365
LoopContinues(i) == i < ScanLimit

\* what a settled fetch adds to the record of the fetches
Settled(report, day, outcome) ==
  LET earned == outcome[1] = "resolved" /\ outcome[2] > 0
  IN [report EXCEPT
        !.lastSettled = <<day, outcome>>,
        !.earning = IF earned THEN @ \cup {day} ELSE @,
        !.barren = IF earned THEN @ ELSE @ \cup {day},
        !.allRejected = @ /\ outcome = Rejected]

exceptDaily == <<allocatorVars, runs, earningsCall, weekCall, projectsView>>

\* the component after its first render
InitDaily ==
  /\ AllocatorIdle
  /\ runs = NoRuns
  /\ earningsCall = NoCall
  /\ weekCall = NoCall
  /\ projectsView = NoCall
  /\ dailyReport =
       [daysSinceLastWorked |-> Null, moneyMadeToday |-> Null,
        isLoading |-> TRUE, error |-> Null,
        todayEarnings |-> Null, lastWorkDayFound |-> Null,
        daysToCheck |-> 0, i |-> 0, pc |-> "mount",
        issued |-> <<>>, todayOutcome |-> <<>>, lastSettled |-> <<>>,
        earning |-> {}, barren |-> {}, allRejected |-> TRUE]

\* the effect runs fetchData up to await getCurrentDay()
FetchData ==
  /\ dailyReport.pc = "mount"
  /\ dailyReport' = [dailyReport EXCEPT
                       !.isLoading = TRUE,
                       !.error = Null,
                       !.todayEarnings = Null,
                       !.lastWorkDayFound = Null,
                       !.pc = "today"]
  /\ UNCHANGED exceptDaily

\* getCurrentDay settles: fetchData runs up to the first await getDay of the
\* loop, or to its end
TodaySettled ==
  /\ dailyReport.pc = "today"
  /\ \E outcome \in FetchOutcomes :
       LET todayReport == getCurrentDay(outcome)
           todayEarnings == todayReport.totalEarnings
           report == [Settled(dailyReport, 0, outcome) EXCEPT
                        !.todayOutcome = outcome]
       IN dailyReport' =
            IF todayReport.settled = "rejected"
            THEN [report EXCEPT
                    !.error = <<"message">>,
                    !.moneyMadeToday = Null,
                    !.daysSinceLastWorked = Null,
                    !.isLoading = FALSE,
                    !.pc = "done"]
            ELSE IF FoundEarnings(todayEarnings)
            THEN [report EXCEPT
                    !.todayEarnings = todayEarnings,
                    !.moneyMadeToday = todayEarnings,
                    !.lastWorkDayFound = <<0>>,
                    !.daysSinceLastWorked = <<0>>,
                    !.isLoading = FALSE,
                    !.pc = "done"]
            ELSE IF LoopContinues(0)
            THEN [report EXCEPT
                    !.todayEarnings = todayEarnings,
                    !.moneyMadeToday = todayEarnings,
                    !.daysToCheck = 1,
                    !.i = 0,
                    !.issued = Append(@, 1),
                    !.pc = "past"]
            ELSE [report EXCEPT
                    !.todayEarnings = todayEarnings,
                    !.moneyMadeToday = todayEarnings,
                    !.daysToCheck = 1,
                    !.i = 0,
                    !.daysSinceLastWorked = report.lastWorkDayFound,
                    !.isLoading = FALSE,
                    !.pc = "done"]
  /\ UNCHANGED exceptDaily

\* the getDay of a pass of the loop settles: fetchData runs up to the await
\* of the next pass, or to its end
PastDaySettled ==
  /\ dailyReport.pc = "past"
  /\ \E outcome \in FetchOutcomes :
       LET daysToCheck == dailyReport.daysToCheck
           report == Settled(dailyReport, daysToCheck, outcome)
           i == dailyReport.i + 1
       IN dailyReport' =
            IF outcome[1] = "resolved" /\ FoundEarnings(<<outcome[2]>>)
            THEN [report EXCEPT
                    !.lastWorkDayFound = <<daysToCheck>>,
                    !.daysSinceLastWorked = <<daysToCheck>>,
                    !.isLoading = FALSE,
                    !.pc = "done"]
            ELSE IF LoopContinues(i)
            THEN [report EXCEPT
                    !.daysToCheck = daysToCheck + 1,
                    !.i = i,
                    !.issued = Append(@, daysToCheck + 1)]
            ELSE [report EXCEPT
                    !.daysToCheck = daysToCheck + 1,
                    !.i = i,
                    !.daysSinceLastWorked = report.lastWorkDayFound,
                    !.isLoading = FALSE,
                    !.pc = "done"]
  /\ UNCHANGED exceptDaily

NextDaily ==
  \/ FetchData
  \/ TodaySettled
  \/ PastDaySettled

SpecDaily == InitDaily /\ [][NextDaily]_vars

\* every fetch settles and the continuation of fetchData then runs
SpecDailyFair == SpecDaily /\ WF_vars(NextDaily)

----------------------------------------------------------------------------
(* The Projects component (src/components/Projects.tsx)

   processProjectsWithProgress resolves to the array built by
   distributeFundsAndCalculateProgress, or rejects (the catalog is not
   iterable).  A progress of that array is one that LoopBody pushes, or NaN:
   an amount of the unchecked catalog that is not a number makes the
   quotient NaN.  A project is [name, progress]; the other fields are
   copied by the spread. *)

ViewMaxLen == 3

Progresses ==
  { LoopBody(Project(1, a, "low"), r).progress : a \in Amounts, r \in Pools }
    \cup {NaN}

ResolvedValues ==
  UNION { { [isArray |-> TRUE,
             items |-> [k \in 1..n |-> [name |-> k, progress |-> p[k]]]] :
            p \in [1..n -> Progresses] } : n \in 0..ViewMaxLen }

\* what the promise rejects with: an Error with its message, another value
RejectionReasons ==
  { [instanceofError |-> TRUE, message |-> "not iterable"],
    [instanceofError |-> FALSE, message |-> ""] }

isNaN(x) == x = NaN
TypeofNumber(x) == x = NaN \/ Len(x) = 2

\* the list set without the map over the fetched data
processedProjectsUnchecked(rawProjectsData) == rawProjectsData.items

\* rawProjectsData.map(project => ({ ...project, progress: ... }))
processedProjects(rawProjectsData) ==
  [k \in 1..Len(rawProjectsData.items) |->
     LET project == rawProjectsData.items[k]
     IN [project EXCEPT
           !.progress = IF TypeofNumber(project.progress) /\ ~isNaN(project.progress)
                        THEN project.progress
                        ELSE <<0, 1>>]]

exceptView == <<allocatorVars, runs, earningsCall, weekCall, dailyReport>>

\* the component after its first render
InitView ==
  /\ AllocatorIdle
  /\ runs = NoRuns
  /\ earningsCall = NoCall
  /\ weekCall = NoCall
  /\ dailyReport = NoCall
  /\ projectsView = [projects |-> <<>>, loading |-> TRUE, error |-> Null,
                     rawProjectsData |-> <<>>, pc |-> "mount"]

\* the effect runs fetchAndSetProjects up to the await
FetchAndSetProjects ==
  /\ projectsView.pc = "mount"
  /\ projectsView' = [projectsView EXCEPT
                        !.loading = TRUE,
                        !.error = Null,
                        !.pc = "await"]
  /\ UNCHANGED exceptView

\* processProjectsWithProgress resolves: the try block, then finally
ProcessResolved ==
  /\ projectsView.pc = "await"
  /\ \E rawProjectsData \in ResolvedValues :
       projectsView' =
         IF rawProjectsData.isArray
         THEN [projectsView EXCEPT
                 !.rawProjectsData = rawProjectsData,
                 !.projects = processedProjects(rawProjectsData),
                 !.loading = FALSE,
                 !.pc = "settled"]
         ELSE [projectsView EXCEPT
                 !.rawProjectsData = rawProjectsData,
                 !.error = <<"Received invalid project data format.">>,
                 !.projects = <<>>,
                 !.loading = FALSE,
                 !.pc = "settled"]
  /\ UNCHANGED exceptView

\* processProjectsWithProgress rejects: the catch block, then finally
ProcessRejected ==
  /\ projectsView.pc = "await"
  /\ \E err \in RejectionReasons :
       LET errorMessage == IF err.instanceofError THEN err.message
                           ELSE "An unknown error occurred while loading projects."
       IN projectsView' = [projectsView EXCEPT
                             !.error = <<"Failed to load project data: ", errorMessage>>,
                             !.projects = <<>>,
                             !.loading = FALSE,
                             !.pc = "settled"]
  /\ UNCHANGED exceptView

NextView ==
  \/ FetchAndSetProjects
  \/ ProcessResolved
  \/ ProcessRejected

SpecView == InitView /\ [][NextView]_vars

\* the awaited call settles and the continuation of fetchAndSetProjects runs
SpecViewFair == SpecView /\ WF_vars(NextView)

----------------------------------------------------------------------------
(* Vocabulary of the properties *)

results == projectsWithCalculatedProgress
Returned == pc = "done"
ValidTiers(s) == \A i \in 1..Len(s) : s[i].priority \in Tiers
TierRank(t) == CASE t = "critical" -> 1 [] t = "high" -> 2
                 [] t = "medium" -> 3 [] t = "low" -> 4
Max0(x) == IF x > 0 THEN x ELSE 0
Hundred == <<100, 1>>
Zero == <<0, 1>>
Abs(x) == IF x < 0 THEN 0 - x ELSE x

RECURSIVE Gcd(_, _)
Gcd(a, b) == IF b = 0 THEN a ELSE Gcd(b, a % b)

Reduce(a) == LET g == Gcd(Abs(a[1]), a[2]) IN <<a[1] \div g, a[2] \div g>>
RatAdd(a, b) ==
  LET x == Reduce(a)
      y == Reduce(b)
  IN Reduce(<<x[1] * y[2] + y[1] * x[2], x[2] * y[2]>>)

RECURSIVE SumSeq(_)
SumSeq(s) == IF s = <<>> THEN 0 ELSE Head(s) + SumSeq(Tail(s))

\* sum over the targets with amount > 0 of progress / 100 * amount
RECURSIVE ReportedAllocation(_)
ReportedAllocation(rs) ==
  IF rs = <<>> THEN Zero
  ELSE LET r == Head(rs)
           part == IF r.amount > 0
                   THEN <<r.progress[1] * r.amount, r.progress[2] * 100>>
                   ELSE Zero
       IN RatAdd(part, ReportedAllocation(Tail(rs)))

RECURSIVE MaxCost(_)
MaxCost(rs) ==
  IF rs = <<>> THEN 0
  ELSE IF Head(rs).amount > MaxCost(Tail(rs)) THEN Head(rs).amount
       ELSE MaxCost(Tail(rs))

----------------------------------------------------------------------------
\* C1: priority precedence.  In the result of a run over a catalog with valid
\* tiers, for two targets A and B with amount > 0 where A's tier is strictly
\* higher than B's, progress of A below 100 implies progress of B equal to 0.
PriorityPrecedence ==
  (Returned /\ ValidTiers(rawProjects)) =>
    \A i, j \in 1..Len(results) :
      ( /\ results[i].amount > 0
        /\ results[j].amount > 0
        /\ TierRank(results[i].priority) < TierRank(results[j].priority)
        /\ RatLt(results[i].progress, Hundred) )
      => RatEq(results[j].progress, Zero)

\* a run whose catalog lists the lower tier first, and whose higher-tier
\* target ends partially funded
PriorityPrecedenceWitness ==
  /\ Returned
  /\ ValidTiers(rawProjects)
  /\ Len(rawProjects) = 2
  /\ TierRank(rawProjects[1].priority) > TierRank(rawProjects[2].priority)
  /\ rawProjects[1].amount > 0
  /\ rawProjects[2].amount > 0
  /\ totalEarned > 0
  /\ \E i \in 1..2 : /\ results[i].name = 2
                     /\ RatLt(results[i].progress, Hundred)
                     /\ RatLt(Zero, results[i].progress)

\* C2 as stated: the sum over targets with amount > 0 of progress / 100 *
\* amount, taken over the returned (rounded) progress values, is at most
\* max(0, pool).
ConservationReported ==
  Returned => RatLeq(ReportedAllocation(results), <<Max0(totalEarned), 1>>)

\* C2 amended: that sum is at most max(0, pool) plus 0.005 percent of the
\* largest positive amount, the most that rounding to two decimals can add.
ConservationReportedWithinRounding ==
  Returned =>
    RatLeq(ReportedAllocation(results),
           <<Max0(totalEarned) * 20000 + MaxCost(results), 20000>>)

\* a run in which rounding pushed the reported sum above the pool
ConservationReportedWitness ==
  /\ Returned
  /\ totalEarned > 0
  /\ RatLt(<<totalEarned, 1>>, ReportedAllocation(results))

\* C3: the amounts subtracted from the running remainder are never negative
\* (the remainder never increases), they account exactly for the change of
\* the remainder, their sum never exceeds max(0, pool), and with pool >= 0
\* the remainder is never negative.
ConservationRemainder ==
  (pc \in {"loop", "done"}) =>
    /\ \A i \in 1..Len(allocated) : allocated[i] >= 0
    /\ remainingEarnedMoney = totalEarned - SumSeq(allocated)
    /\ SumSeq(allocated) <= Max0(totalEarned)
    /\ (totalEarned >= 0 => remainingEarnedMoney >= 0)

\* a pass that exhausted a positive pool over two targets
ConservationRemainderWitness ==
  /\ Returned
  /\ totalEarned > 0
  /\ Len(allocated) = 2
  /\ allocated[1] > 0
  /\ allocated[2] > 0
  /\ remainingEarnedMoney = 0

\* C4: a pass of the loop over a target with amount <= 0 pushes progress 100
\* and leaves the running remainder unchanged, whatever the pool and the
\* position.
ZeroCostInvariant ==
  [][ ( /\ pc = "loop"
        /\ Len(results') = Len(results) + 1
        /\ results'[Len(results')].amount <= 0 )
      => ( /\ RatEq(results'[Len(results')].progress, Hundred)
           /\ remainingEarnedMoney' = remainingEarnedMoney ) ]_vars

\* a negative-amount target in second position, processed with a negative pool
ZeroCostWitness ==
  /\ pc = "loop"
  /\ totalEarned < 0
  /\ Len(results) = 2
  /\ results[1].amount > 0
  /\ results[2].amount < 0
  /\ RatEq(results[2].progress, Hundred)

\* C5: every returned progress value lies in [0, 100] and is a whole number
\* of hundredths.
RangeInvariant ==
  \A i \in 1..Len(results) :
    /\ RatLeq(Zero, results[i].progress)
    /\ RatLeq(results[i].progress, Hundred)
    /\ (results[i].progress[1] * 100) % results[i].progress[2] = 0

\* a target of amount 3 funded with 1 or 2: its exact percentage has no
\* finite decimal expansion
RangeWitness ==
  /\ Returned
  /\ \E i \in 1..Len(results) :
       /\ results[i].amount = 3
       /\ allocated[i] \in {1, 2}
       /\ results[i].progress \in {<<3333, 100>>, <<6667, 100>>}

----------------------------------------------------------------------------
(* Vocabulary of the sorting properties *)

Count(s, x) == Cardinality({i \in 1..Len(s) : s[i] = x})
Range(s) == {s[i] : i \in 1..Len(s)}
IsPermutation(s, t) ==
  /\ Len(s) = Len(t)
  /\ \A x \in Range(s) \cup Range(t) : Count(s, x) = Count(t, x)
Sorted == pc # "sort"

\* C6: for a catalog with valid tiers, the sorted list is a permutation of
\* the catalog and its tier ranks are non-decreasing.
SortIsOrderedPermutation ==
  (Sorted /\ ValidTiers(rawProjects)) =>
    /\ IsPermutation(rawProjects, sortedProjects)
    /\ \A i, j \in 1..Len(sortedProjects) :
         i < j => TierRank(sortedProjects[i].priority)
                    <= TierRank(sortedProjects[j].priority)

\* a catalog that lists a low target before a medium one, after the sort
SortIsOrderedPermutationWitness ==
  /\ Sorted
  /\ Len(rawProjects) = 2
  /\ rawProjects[1].priority = "low"
  /\ rawProjects[2].priority = "medium"
  /\ sortedProjects = <<rawProjects[2], rawProjects[1]>>

\* C7: for a catalog with valid tiers, two targets of the same tier stand in
\* the sorted list in the order they have in the catalog.
SortIsStable ==
  (Sorted /\ ValidTiers(rawProjects)) =>
    \A i, j \in 1..Len(rawProjects) :
      (i < j /\ rawProjects[i].priority = rawProjects[j].priority) =>
        \E k, l \in 1..Len(sortedProjects) :
          /\ k < l
          /\ sortedProjects[k] = rawProjects[i]
          /\ sortedProjects[l] = rawProjects[j]

\* two high targets, the dearer one listed first, after the sort
SortIsStableWitness ==
  /\ Sorted
  /\ Len(rawProjects) = 2
  /\ rawProjects[1].priority = "high"
  /\ rawProjects[2].priority = "high"
  /\ rawProjects[1].amount > rawProjects[2].amount
  /\ sortedProjects = rawProjects

\* C8 as stated: with a priority outside the four tiers in the catalog, the
\* sort step fails with InvalidPriorityError and yields no ordered list.
InvalidPriorityRejected ==
  (~ValidTiers(rawProjects)) =>
    /\ pc \in {"sort", "InvalidPriorityError"}
    /\ sortedProjects = <<>>

\* C9: a run with a negative pool returns what the allocator returns for the
\* same targets with pool 0.
NegativePoolAsZero ==
  (Returned /\ totalEarned < 0) =>
    results = distributeFundsAndCalculateProgress(sortedProjects, 0)

\* a returned run with a negative pool over two targets of positive amount
NegativePoolWitness ==
  /\ Returned
  /\ totalEarned < 0
  /\ Len(results) = 2
  /\ \A i \in 1..2 : results[i].amount > 0 /\ RatEq(results[i].progress, Zero)

\* The reference algorithm: the exact percentage of each target, before
\* clamping and rounding.
RECURSIVE RefPass(_, _)
RefPass(targets, remaining) ==
  IF targets = <<>> THEN <<>>
  ELSE LET cost == Head(targets).amount
       IN IF cost <= 0 THEN <<Hundred>> \o RefPass(Tail(targets), remaining)
          ELSE IF remaining <= 0 THEN <<Zero>> \o RefPass(Tail(targets), remaining)
          ELSE LET a == IF remaining < cost THEN remaining ELSE cost
               IN << <<a * 100, cost>> >> \o RefPass(Tail(targets), remaining - a)

RefAllocate(targets, pool) == RefPass(targets, Max0(pool))

\* p is x clamped to [0, 100] and rounded to the nearest hundredth (up on a tie)
IsClampedRounded(p, x) ==
  LET c == IF RatLt(x, Zero) THEN Zero ELSE IF RatLt(Hundred, x) THEN Hundred ELSE x
      k == (p[1] * 100) \div p[2]
  IN /\ (p[1] * 100) % p[2] = 0
     /\ 2 * (k * c[2] - 100 * c[1]) <= c[2]
     /\ 2 * (100 * c[1] - k * c[2]) < c[2]

\* C10: the returned progress sequence is the one of the reference algorithm.
MatchesReference ==
  Returned =>
    /\ Len(results) = Len(sortedProjects)
    /\ \A i \in 1..Len(results) :
         IsClampedRounded(results[i].progress,
                          RefAllocate(sortedProjects, totalEarned)[i])

\* a run that funds its first target fully and its second one in part, with
\* a percentage that needs rounding
MatchesReferenceWitness ==
  /\ Returned
  /\ Len(results) = 2
  /\ results[1].amount > 0
  /\ RatEq(results[1].progress, Hundred)
  /\ results[2].amount = 3
  /\ results[2].progress = <<6667, 100>>

----------------------------------------------------------------------------
\* C11: monotonicity in the pool.  For the targets of the run, no pool below
\* the run's pool gives any target more progress than the run returned, and
\* no pool above it gives any target less.
MonotoneInPool ==
  Returned =>
    \A p \in Pools :
      LET other == distributeFundsAndCalculateProgress(sortedProjects, p)
      IN \A i \in 1..Len(results) :
           /\ p <= totalEarned => RatLeq(other[i].progress, results[i].progress)
           /\ totalEarned <= p => RatLeq(results[i].progress, other[i].progress)

\* a run whose second target is funded in part, and gets strictly less from
\* a smaller pool that still reaches it
MonotoneInPoolWitness ==
  /\ Returned
  /\ Len(results) = 2
  /\ results[1].amount > 0
  /\ RatLt(Zero, results[2].progress)
  /\ RatLt(results[2].progress, Hundred)
  /\ \E p \in Pools :
       /\ p < totalEarned
       /\ LET other == distributeFundsAndCalculateProgress(sortedProjects, p)
          IN /\ RatLt(Zero, other[2].progress)
             /\ RatLt(other[2].progress, results[2].progress)

\* C12: empty pool.  A run with pool 0 returns progress 0 for every target
\* with amount > 0 and progress 100 for every target with amount <= 0.
EmptyPoolBoundary ==
  (Returned /\ totalEarned = 0) =>
    \A i \in 1..Len(results) :
      /\ results[i].amount > 0 => RatEq(results[i].progress, Zero)
      /\ results[i].amount <= 0 => RatEq(results[i].progress, Hundred)
      /\ results[i].progress[2] > 0

\* a pool of 0 computed from a resolved fetch, over a target with a positive
\* amount and a target with amount 0
EmptyPoolWitness ==
  /\ Returned
  /\ earningsOutcome = "resolved"
  /\ totalEarned = 0
  /\ Len(results) = 2
  /\ results[1].amount > 0
  /\ results[2].amount = 0

\* C13: the returned list has one result per target of the sorted list, in
\* the same order, each carrying the name, amount and priority of its target.
OneResultPerTarget ==
  Returned =>
    /\ Len(results) = Len(sortedProjects)
    /\ \A i \in 1..Len(results) :
         /\ results[i].name = sortedProjects[i].name
         /\ results[i].amount = sortedProjects[i].amount
         /\ results[i].priority = sortedProjects[i].priority

\* a returned run over two targets that differ in amount and priority
OneResultPerTargetWitness ==
  /\ Returned
  /\ Len(results) = 2
  /\ sortedProjects[1].amount # sortedProjects[2].amount
  /\ sortedProjects[1].priority # sortedProjects[2].priority
  /\ rawProjects # sortedProjects

----------------------------------------------------------------------------
InputFields == {"name", "amount", "priority"}

\* C14: inputs are not mutated.  No step changes the catalog, no step after
\* the sort changes the sorted list, the records of both lists never get a
\* progress field, and the results are records of their own that have one.
InputsNotMutated ==
  [][ /\ rawProjects' = rawProjects
      /\ (pc # "sort" => sortedProjects' = sortedProjects)
      /\ \A i \in 1..Len(rawProjects') : DOMAIN rawProjects'[i] = InputFields
      /\ \A i \in 1..Len(sortedProjects') : DOMAIN sortedProjects'[i] = InputFields
      /\ \A i \in 1..Len(results') :
           DOMAIN results'[i] = InputFields \cup {"progress"} ]_vars

\* a returned run whose sort had to reorder the catalog and whose allocation
\* gave both targets a progress above 0
InputsNotMutatedWitness ==
  /\ Returned
  /\ Len(rawProjects) = 2
  /\ sortedProjects = <<rawProjects[2], rawProjects[1]>>
  /\ \A i \in 1..2 : RatLt(Zero, results[i].progress)
  /\ results[1].amount > 0

\* C15 as stated: for any two results A and B of a run where A's tier is
\* strictly higher than B's, progress of A below 100 implies progress of B
\* equal to 0, whatever the amounts.
PrecedenceAnyCost ==
  (Returned /\ ValidTiers(rawProjects)) =>
    \A i, j \in 1..Len(results) :
      ( /\ TierRank(results[i].priority) < TierRank(results[j].priority)
        /\ RatLt(results[i].progress, Hundred) )
      => RatEq(results[j].progress, Zero)

\* C15 amended: under the same premises, B has progress 0 unless its amount
\* is <= 0, in which case it has progress 100.
PrecedenceUnlessCostless ==
  (Returned /\ ValidTiers(rawProjects)) =>
    \A i, j \in 1..Len(results) :
      ( /\ TierRank(results[i].priority) < TierRank(results[j].priority)
        /\ RatLt(results[i].progress, Hundred) )
      => \/ results[j].amount > 0 /\ RatEq(results[j].progress, Zero)
         \/ results[j].amount <= 0 /\ RatEq(results[j].progress, Hundred)

\* a critical target funded in part, followed by a low target of amount 0
\* that stands at 100
PrecedenceUnlessCostlessWitness ==
  /\ Returned
  /\ Len(results) = 2
  /\ results[1].priority = "critical"
  /\ RatLt(Zero, results[1].progress)
  /\ RatLt(results[1].progress, Hundred)
  /\ results[2].priority = "low"
  /\ results[2].amount = 0
  /\ RatEq(results[2].progress, Hundred)

\* C16: when the fetch rejects or calculateTotalEarnings throws, the pool is
\* 0, the run goes on to the allocation, and every result is 0 for a
\* positive amount and 100 for an amount <= 0.
FetchFailureIsZeroPool ==
  (earningsOutcome = "failed") =>
    /\ totalEarned = 0
    /\ remainingEarnedMoney = 0
    /\ pc \in {"loop", "done"}
    /\ \A i \in 1..Len(results) :
         /\ results[i].amount > 0 => RatEq(results[i].progress, Zero)
         /\ results[i].amount <= 0 => RatEq(results[i].progress, Hundred)

\* a run that returned after a failed fetch, over a target with a positive
\* amount and a target with a negative one
FetchFailureWitness ==
  /\ Returned
  /\ earningsOutcome = "failed"
  /\ Len(results) = 2
  /\ results[1].amount > 0
  /\ results[2].amount < 0

----------------------------------------------------------------------------
\* C17: interleaved invocations do not interfere.  At every step each
\* invocation has built a prefix of the list it returns when run alone, and
\* an invocation that has returned has returned exactly that list.
NoInterference ==
  \A r \in RunIds :
    runs[r].pc \in {"loop", "returned"} =>
      LET alone == distributeFundsAndCalculateProgress(runs[r].sortedProjects,
                                                       runs[r].totalEarnedMoney)
          built == runs[r].projectsWithCalculatedProgress
      IN /\ Len(built) <= Len(alone)
         /\ built = SubSeq(alone, 1, Len(built))
         /\ runs[r].pc = "returned" => built = alone

\* two invocations with different targets and different pools, each in the
\* middle of its loop, the second one funded in part
NoInterferenceWitness ==
  /\ \A r \in RunIds :
       /\ runs[r].pc = "loop"
       /\ Len(runs[r].sortedProjects) = 2
       /\ Len(runs[r].projectsWithCalculatedProgress) = 1
  /\ runs[1].sortedProjects # runs[2].sortedProjects
  /\ runs[1].totalEarnedMoney > runs[2].totalEarnedMoney
  /\ RatLt(Zero, runs[2].projectsWithCalculatedProgress[1].progress)
  /\ RatLt(runs[2].projectsWithCalculatedProgress[1].progress, Hundred)

\* C18: determinism of the composite.  The returned list is the allocation,
\* with the run's pool, of every array the sort can return for the catalog:
\* it is a function of the catalog and the pool alone.
Deterministic ==
  Returned =>
    \A s \in sortProjectsByPriority(rawProjects) :
      results = distributeFundsAndCalculateProgress(s, totalEarned)

\* a returned run over two targets of one tier and different amounts, the
\* pool too small for both
DeterministicWitness ==
  /\ Returned
  /\ Len(rawProjects) = 2
  /\ rawProjects[1].priority = rawProjects[2].priority
  /\ rawProjects[1].amount > 0
  /\ rawProjects[2].amount > rawProjects[1].amount
  /\ totalEarned > 0
  /\ totalEarned < rawProjects[1].amount + rawProjects[2].amount

----------------------------------------------------------------------------
InScenario(pool) ==
  /\ rawProjects \in ScenarioCatalogs
  /\ pc \in {"loop", "done"}
  /\ totalEarned = pool

\* C19: critical 1000, high 500, low 2000 with pool 1200.  The critical
\* target gets 100 and leaves a remainder of 200, the high target gets 40
\* and leaves 0, the low target gets 0.
ScenarioPartial ==
  InScenario(1200) =>
    /\ Len(results) >= 1 =>
         /\ results[1].priority = "critical"
         /\ RatEq(results[1].progress, Hundred)
    /\ Len(results) = 1 => remainingEarnedMoney = 200
    /\ Len(results) >= 2 =>
         /\ results[2].priority = "high"
         /\ RatEq(results[2].progress, <<40, 1>>)
    /\ Len(results) = 2 => remainingEarnedMoney = 0
    /\ Len(results) = 3 =>
         /\ results[3].priority = "low"
         /\ RatEq(results[3].progress, Zero)
         /\ remainingEarnedMoney = 0

\* the scenario returned, from a catalog that lists the low target first
ScenarioPartialWitness ==
  /\ InScenario(1200)
  /\ Returned
  /\ rawProjects[1].priority = "low"
  /\ Len(results) = 3
  /\ allocated = <<1000, 200, 0>>

\* C20: the same targets with pool 3500.  All three targets get 100 and the
\* remainder at the end of the pass is exactly 0.
ScenarioExhaustion ==
  (InScenario(3500) /\ Returned) =>
    /\ Len(results) = 3
    /\ \A i \in 1..3 : RatEq(results[i].progress, Hundred)
    /\ remainingEarnedMoney = 0

\* the scenario returned, from a catalog that lists the high target first
ScenarioExhaustionWitness ==
  /\ InScenario(3500)
  /\ Returned
  /\ rawProjects[1].priority = "high"
  /\ allocated = <<1000, 500, 2000>>

----------------------------------------------------------------------------
\* C21: a single critical target of cost 3 with pool 1 gets progress 33.33;
\* in general the progress of a target with a positive cost is a whole
\* number of hundredths, the one nearest to allocated / cost * 100.
RoundedToHundredths ==
  /\ ( /\ rawProjects = <<Project(1, 3, "critical")>>
       /\ totalEarned = 1
       /\ Len(results) = 1 ) => RatEq(results[1].progress, <<3333, 100>>)
  /\ \A i \in 1..Len(results) :
       results[i].amount > 0 =>
         LET p == results[i].progress
             h == (p[1] * 100) \div p[2]
         IN /\ (p[1] * 100) % p[2] = 0
            /\ 2 * Abs(h * results[i].amount - allocated[i] * 10000)
                 <= results[i].amount

\* the run of the single critical target of cost 3 with pool 1
RoundedToHundredthsWitness ==
  /\ Returned
  /\ rawProjects = <<Project(1, 3, "critical")>>
  /\ totalEarned = 1
  /\ allocated = <<1>>
  /\ results[1].progress = <<3333, 100>>

----------------------------------------------------------------------------
Funded(i) == results[i].amount > 0
Partial(i) ==
  /\ Funded(i)
  /\ RatLt(Zero, results[i].progress)
  /\ RatLt(results[i].progress, Hundred)

\* C25: in a result at most one target with amount > 0 has a progress
\* strictly between 0 and 100; the targets with amount > 0 before it have
\* progress 100 and those after it have progress 0.
AtMostOnePartial ==
  Returned =>
    \A i \in 1..Len(results) :
      Partial(i) =>
        \A j \in 1..Len(results) :
          /\ (j /= i /\ Funded(j)) => ~Partial(j)
          /\ (j < i /\ Funded(j)) => RatEq(results[j].progress, Hundred)
          /\ (j > i /\ Funded(j)) => RatEq(results[j].progress, Zero)

\* a result whose first target is funded in part and whose second target,
\* of positive cost too, gets nothing
AtMostOnePartialWitness ==
  /\ Returned
  /\ Len(results) = 2
  /\ Partial(1)
  /\ Funded(2)
  /\ RatEq(results[2].progress, Zero)

----------------------------------------------------------------------------
\* the sum of the amounts of the targets with amount > 0
RECURSIVE PositiveCost(_)
PositiveCost(s) ==
  IF s = <<>> THEN 0 ELSE Max0(Head(s).amount) + PositiveCost(Tail(s))

\* C26: when the pool is at least the sum of the amounts of the targets
\* with amount > 0, every target of the result has progress 100 and the
\* remainder at the end is the pool minus that sum.
FullFunding ==
  (Returned /\ totalEarned >= PositiveCost(sortedProjects)) =>
    /\ \A i \in 1..Len(results) : RatEq(results[i].progress, Hundred)
    /\ remainingEarnedMoney = totalEarned - PositiveCost(sortedProjects)

\* a pool above the cost of two targets, one after the other funded in
\* full, with money left over
FullFundingWitness ==
  /\ Returned
  /\ Len(results) = 2
  /\ Funded(1) /\ Funded(2)
  /\ totalEarned > results[1].amount + results[2].amount
  /\ remainingEarnedMoney > 0
  /\ allocated = <<results[1].amount, results[2].amount>>

----------------------------------------------------------------------------
\* the result computed for the target listed at position n of the catalog
ResultOf(n) == CHOOSE r \in Range(results) : r.name = n

\* C27: of two targets of the same tier with amount > 0, when the one
\* listed first in the catalog has progress below 100 the one listed later
\* has progress 0.
SameTierCatalogOrder ==
  Returned =>
    \A m, n \in 1..Len(rawProjects) :
      ( /\ m < n
        /\ rawProjects[m].priority = rawProjects[n].priority
        /\ rawProjects[m].amount > 0
        /\ rawProjects[n].amount > 0
        /\ RatLt(ResultOf(m).progress, Hundred) )
      => RatEq(ResultOf(n).progress, Zero)

\* two targets of one tier, the pool short of the cost of the one listed
\* first, which is the cheaper one
SameTierCatalogOrderWitness ==
  /\ Returned
  /\ Len(rawProjects) = 2
  /\ rawProjects[1].priority = rawProjects[2].priority
  /\ 0 < rawProjects[1].amount
  /\ rawProjects[1].amount < rawProjects[2].amount
  /\ 0 < totalEarned
  /\ totalEarned < rawProjects[1].amount
  /\ RatLt(Zero, ResultOf(1).progress)
  /\ RatEq(ResultOf(2).progress, Zero)

----------------------------------------------------------------------------
\* the sum of earnedAmount over the billable entries whose earnedAmount is
\* a number
RECURSIVE BillableSum(_)
BillableSum(es) ==
  IF es = <<>> THEN 0
  ELSE (IF Head(es).billable /\ Head(es).earnedAmount \notin {<<"null">>, <<"undefined">>}
        THEN Head(es).earnedAmount[2] ELSE 0) + BillableSum(Tail(es))

\* the largest integer q with 100 * q <= x
FloorOfHundredth(x) ==
  CHOOSE q \in (0 - Abs(x) - 1)..Abs(x) : 100 * q <= x /\ x < 100 * (q + 1)

\* C30: calculateTotalEarnings returns floor(S / 100), S being the sum of
\* earnedAmount over the billable entries whose earnedAmount is neither null
\* nor undefined, and 0 when data is not an object, is null or has no
\* timeentries field.
TotalEarningsIsFlooredBillableSum ==
  earningsCall.pc = "returned" =>
    LET data == earningsCall.data
    IN IF data.typeof /= "object" \/ data.isNull \/ ~data.hasTimeentries
       THEN earningsCall.result = 0
       ELSE earningsCall.result = FloorOfHundredth(BillableSum(data.timeentries))

\* a billable entry of 250 and a non-billable one of 100 give 2
TotalEarningsWitness ==
  /\ earningsCall.pc = "returned"
  /\ Len(earningsCall.data.timeentries) = 2
  /\ earningsCall.data.timeentries[1] =
       [billable |-> TRUE, earnedAmount |-> <<"number", 250>>]
  /\ earningsCall.data.timeentries[2] =
       [billable |-> FALSE, earnedAmount |-> <<"number", 100>>]
  /\ earningsCall.result = 2

----------------------------------------------------------------------------
\* C29: getDailyReportsForCurrentWeek asks for the seven days of the week of
\* today, Monday to Sunday, each only after the day before it was answered,
\* and resolves to the seven reports in that order; when the fetch of a day
\* fails the call rejects, asks for no later day and returns no list.
WeekInOrderOrRejected ==
  weekCall.pc /= "call" =>
    LET monday == weekCall.beginningOfWeek
        requested == weekCall.requested
        served == weekCall.served
    IN /\ DateGetDay(monday) = 1
       /\ monday <= weekCall.today
       /\ weekCall.today <= monday + 6
       /\ Len(requested) <= 7
       /\ \A k \in 1..Len(requested) : requested[k] = monday + (k - 1)
       /\ Len(served) <= Len(requested)
       /\ Len(requested) <= Len(served) + 1
       /\ \A k \in 1..Len(served) : served[k][1] = requested[k]
       /\ weekCall.pc = "resolved" =>
            /\ weekCall.failed = <<>>
            /\ Len(weekCall.returned) = 1
            /\ Len(weekCall.returned[1]) = 7
            /\ \A k \in 1..7 :
                 weekCall.returned[1][k] = [totalEarnings |-> served[k][2]]
       /\ weekCall.pc /= "resolved" => weekCall.returned = <<>>
       /\ weekCall.failed /= <<>> =>
            /\ weekCall.pc = "rejected"
            /\ Len(requested) = Len(served) + 1
            /\ weekCall.failed = <<requested[Len(requested)]>>

\* called on a Sunday, the fetch of Thursday fails after three days with
\* different earnings were answered
WeekInOrderOrRejectedWitness ==
  /\ weekCall.pc = "rejected"
  /\ DateGetDay(weekCall.today) = 0
  /\ Len(weekCall.served) = 3
  /\ weekCall.served[1][2] /= weekCall.served[2][2]
  /\ DateGetDay(weekCall.failed[1]) = 4

----------------------------------------------------------------------------
\* C22: when loading has finished, daysSinceLastWorked is the smallest d in
\* 0..365 whose fetch resolved with totalEarnings > 0 (every day before d was
\* fetched and gave no earnings), and it is null when the fetches of all the
\* days 0..365 gave none.
ScanFindsLatestWorkDay ==
  (dailyReport.pc /= "mount" /\ ~dailyReport.isLoading) =>
    LET d == dailyReport.daysSinceLastWorked
    IN IF d = Null
       THEN dailyReport.earning = {} /\ dailyReport.barren = 0..365
       ELSE /\ d[1] \in 0..365
            /\ d[1] \in dailyReport.earning
            /\ \A k \in 0..(d[1] - 1) : k \in dailyReport.barren

\* today's fetch is rejected, yesterday's gives no earnings, the day before
\* gives some
ScanFindsLatestWorkDayWitness ==
  /\ ~dailyReport.isLoading
  /\ dailyReport.todayOutcome = Rejected
  /\ dailyReport.daysSinceLastWorked = <<2>>
  /\ dailyReport.barren = {0, 1}
  /\ dailyReport.moneyMadeToday = Null

----------------------------------------------------------------------------
ScanInOrder ==
  LET issued == dailyReport.issued
  IN /\ Len(issued) <= 365
     /\ \A k \in 1..Len(issued) : issued[k] = k
     /\ \A k \in 1..(Len(issued) - 1) :
          issued[k] \in dailyReport.earning \cup dailyReport.barren
     /\ \A d \in dailyReport.earning : Len(issued) <= d

\* C23: at most 365 past days are fetched, one at a time in the order 1, 2,
\* 3, ... days ago, none after the first day found with earnings > 0 (none
\* at all when that day is today), and isLoading eventually becomes false.
ScanBoundedAndFinishes ==
  []ScanInOrder /\ <>(dailyReport.pc /= "mount" /\ ~dailyReport.isLoading)

\* the scan that finds earnings only at its last day
ScanBoundedAndFinishesWitness ==
  /\ ~dailyReport.isLoading
  /\ Len(dailyReport.issued) = 365
  /\ dailyReport.daysSinceLastWorked = <<365>>

----------------------------------------------------------------------------
\* C24: no fetch failure sets error; a rejected fetch for today leaves
\* todayEarnings and moneyMadeToday null and the scan starts; after a
\* rejected fetch for a past day other than the last one the next day is
\* fetched; when every fetch was rejected the component ends with isLoading
\* false, error null, moneyMadeToday null and daysSinceLastWorked null.
FetchFailuresTolerated ==
  LET last == dailyReport.lastSettled
      issued == dailyReport.issued
  IN /\ dailyReport.error = Null
     /\ dailyReport.todayOutcome = Rejected =>
          /\ dailyReport.todayEarnings = Null
          /\ dailyReport.moneyMadeToday = Null
          /\ Len(issued) >= 1
     /\ (last /= <<>> /\ last[2] = Rejected /\ last[1] < 365) =>
          /\ dailyReport.pc = "past"
          /\ issued[Len(issued)] = last[1] + 1
     /\ (dailyReport.pc = "done" /\ dailyReport.allRejected) =>
          /\ Len(issued) = 365
          /\ dailyReport.isLoading = FALSE
          /\ dailyReport.error = Null
          /\ dailyReport.moneyMadeToday = Null
          /\ dailyReport.daysSinceLastWorked = Null

\* the fetch for today and the fetches for all the 365 past days rejected
FetchFailuresToleratedWitness ==
  /\ dailyReport.pc = "done"
  /\ dailyReport.allRejected
  /\ dailyReport.lastSettled = <<365, Rejected>>
  /\ dailyReport.isLoading = FALSE
  /\ dailyReport.daysSinceLastWorked = Null

----------------------------------------------------------------------------
LoadingUntilSettled ==
  /\ projectsView.pc \in {"mount", "await"} => projectsView.loading = TRUE
  /\ projectsView.pc = "settled" => projectsView.loading = FALSE

LoadedConsistent ==
  projectsView.loading = FALSE =>
    /\ projectsView.error /= Null => projectsView.projects = <<>>
    /\ projectsView.projects /= <<>> =>
         /\ projectsView.error = Null
         /\ \A k \in 1..Len(projectsView.projects) :
              LET progress == projectsView.projects[k].progress
              IN progress /= NaN /\ Len(progress) = 2 /\ progress[2] > 0

\* C28: loading is true from mount until processProjectsWithProgress
\* settles, then false for good, and it does become false; with loading
\* false, an error comes with an empty list, and a non-empty list comes with
\* no error and with progresses that are numbers other than NaN.
LoadLifecycle ==
  /\ [](LoadingUntilSettled /\ LoadedConsistent)
  /\ [][projectsView.loading = FALSE => projectsView'.loading = FALSE]_vars
  /\ <>(projectsView.loading = FALSE)

\* a list of two loaded from data whose first progress was NaN
LoadLifecycleWitness ==
  /\ projectsView.pc = "settled"
  /\ projectsView.loading = FALSE
  /\ Len(projectsView.projects) = 2
  /\ projectsView.rawProjectsData.items[1].progress = NaN
  /\ projectsView.projects[1].progress = <<0, 1>>
  /\ projectsView.projects[2].progress = <<3333, 100>>
====
